---- MODULE Spec2Model ----
(***************************************************************************)
(* A model of plugins/modules/monitoring/defectdojo.py: the bootstrap      *)
(* orchestration (run), the client factory and test, the create_product    *)
(* step and the parse_bool coercion.                                       *)
(*                                                                         *)
(* The remote service, the requests library and the DefectDojo client      *)
(* library are external: every call into them is a nondeterministic choice *)
(* over the outcomes the call can have (a result, or an exception).        *)
(*                                                                         *)
(* The members of the ContextFrom enum (FROM_DOTENV, FROM_YAML) appear in  *)
(* the source file only as commented-out text (lines 28-73), so the two    *)
(* context builders run() selects are not live code of the file. Their     *)
(* behaviour is taken from the design document (section 4.2): each returns *)
(* a context mapping, and an empty mapping when its source is unreadable.  *)
(***************************************************************************)
EXTENDS Integers, Sequences, FiniteSets, TLC

VARIABLES
    pc,             \* position of run(): the next stage to execute
    context,        \* run's local `context` (auth context, later rebound to the bootstrap context)
    api_key,        \* run's local `api_key`, a Python value
    client,         \* run's local `client`
    exc,            \* the exception propagating out of run ("" when none)
    calls,          \* history of the remote calls issued, in order
    log,            \* history of the INFO/ERROR log lines emitted, in order
    cpState,        \* create_product frame: "idle", "loop", "returned" or "raised"
    cpExc,          \* the exception create_product raised ("" when none)
    allow_existing, \* create_product local
    items,          \* create_product local: the item collection iterated
    current,        \* create_product local: names of the existing products
    idx,            \* create_product loop position (1-based index of the next item)
    pbCalls         \* history of parse_bool applications: <<input, result>> pairs

vars == <<pc, context, api_key, client, exc, calls, log, cpState, cpExc,
          allow_existing, items, current, idx, pbCalls>>

runVars == <<pc, context, api_key, client, exc, calls, log, cpState, cpExc,
             allow_existing, items, current, idx>>

-----------------------------------------------------------------------------
(* Bounds of the model *)

\* longest item collection of a bootstrap context
MaxItems == 2

\* number of parse_bool applications recorded in one behaviour
MaxCalls == 2

-----------------------------------------------------------------------------
(* Python values: a type tag, a numeric value (bool, int, float) and a     *)
(* string value (str).                                                     *)

PyBool(b) == [t |-> "bool", n |-> IF b THEN 1 ELSE 0, s |-> ""]
PyInt(k) == [t |-> "int", n |-> k, s |-> ""]
PyFloat(k) == [t |-> "float", n |-> k, s |-> ""]
PyStr(str) == [t |-> "str", n |-> 0, s |-> str]
PyNone == [t |-> "NoneType", n |-> 0, s |-> ""]

PyTrue == PyBool(TRUE)
PyFalse == PyBool(FALSE)

NumericTypes == {"bool", "int", "float"}

\* Python's ==: bool is a subclass of int, so True == 1 == 1.0 and
\* False == 0 == 0.0; a str equals only an equal str; None equals only None.
PyEq(a, b) ==
    IF a.t \in NumericTypes /\ b.t \in NumericTypes THEN a.n = b.n
    ELSE IF a.t = "str" /\ b.t = "str" THEN a.s = b.s
    ELSE a.t = "NoneType" /\ b.t = "NoneType"

\* the first test of parse_bool (line 83)
IsTruthyLiteral(value) ==
    \/ PyEq(value, PyTrue)
    \/ PyEq(value, PyStr("1"))
    \/ PyEq(value, PyStr("True"))
    \/ PyEq(value, PyStr("true"))

\* the second test of parse_bool (line 85)
IsFalseyLiteral(value) ==
    \/ PyEq(value, PyFalse)
    \/ PyEq(value, PyStr("0"))
    \/ PyEq(value, PyStr("False"))
    \/ PyEq(value, PyStr("false"))

parse_bool(value) ==
    IF IsTruthyLiteral(value) THEN PyTrue
    ELSE IF IsFalseyLiteral(value) THEN PyFalse
    ELSE value

\* the inputs parse_bool is applied to
PyValues ==
    {PyTrue, PyFalse, PyNone}
    \cup {PyInt(k) : k \in {0 - 1, 0, 1, 2}}
    \cup {PyFloat(k) : k \in {0, 1}}
    \cup {PyStr(str) : str \in {"1", "0", "true", "True", "false", "False",
                                "yes", "TRUE", ""}}

-----------------------------------------------------------------------------
(* Mappings (Python dict) are functions; dict.get(k, d) is Get.            *)

EmptyMap == [k \in {} |-> 0]

HasKey(m, k) == k \in DOMAIN m

Get(m, k, d) == IF k \in DOMAIN m THEN m[k] ELSE d

\* the mapping {k: v} when opt = {v}, the empty mapping when opt = {}
Entry(k, opt) == [x \in {k : v \in opt} |-> CHOOSE v \in opt : TRUE]

-----------------------------------------------------------------------------
(* Log lines and remote calls, as recorded in the two histories.           *)

\* a log line: level, message template, the loop position that emitted it
\* (0 outside the item loop) and the value formatted into the template
LogLine(level, msg, k, arg) == [level |-> level, msg |-> msg, idx |-> k, arg |-> arg]

Info(msg) == LogLine("INFO", msg, 0, "")
Error(msg) == LogLine("ERROR", msg, 0, "")

\* a remote call: operation, the loop position that issued it (0 outside
\* the item loop), its argument of interest, how it ended ("raise" or the
\* kind of result) and the status code of its response (0 when it has none)
Call(op, k, arg, res, code) ==
    [op |-> op, idx |-> k, arg |-> arg, res |-> res, code |-> code]

Range(seq) == {seq[n] : n \in DOMAIN seq}

-----------------------------------------------------------------------------
(* Stage 1: the auth context (run, lines 231-244).                         *)

\* vars_map of run: environment variable name -> context key
vars_map ==
    [v \in {"DD_HOST", "DD_DEBUG", "DD_VERIFY_SSL", "DD_API_VERSION", "DD_USER"} |->
        CASE v = "DD_HOST" -> "host"
          [] v = "DD_DEBUG" -> "debug"
          [] v = "DD_VERIFY_SSL" -> "verify_ssl"
          [] v = "DD_API_VERSION" -> "api_version"
          [] v = "DD_USER" -> "user"]

\* the environment after a readable environment file was loaded
EnvGood ==
    [v \in DOMAIN vars_map |->
        CASE v = "DD_HOST" -> PyStr("h")
          [] v = "DD_DEBUG" -> PyStr("0")
          [] v = "DD_VERIFY_SSL" -> PyStr("True")
          [] v = "DD_API_VERSION" -> PyStr("v2")
          [] v = "DD_USER" -> PyStr("u")]

\* the environment-file builder: every mapped variable, coerced by
\* parse_bool, under its context key; the empty context when the file
\* cannot be read
from_dotenv_file(env, readable) ==
    IF readable
    THEN [c \in {vars_map[v] : v \in DOMAIN vars_map} |->
            parse_bool(env[CHOOSE v \in DOMAIN vars_map : vars_map[v] = c])]
    ELSE EmptyMap

AuthContexts == {from_dotenv_file(EnvGood, readable) : readable \in BOOLEAN}

-----------------------------------------------------------------------------
(* Stage 2: API key, client, client test (lines 109-158, 246-249).         *)

\* exception classes the except clause of get_api_key names (line 128):
\* the builtin ConnectionError and TimeoutError. The exceptions of the
\* requests library derive from RequestException and are none of them.
BuiltinConnectionErrors == {"ConnectionError", "TimeoutError"}

\* what the login request and the decoding of its response can do
LoginResponse(token) == [kind |-> "response", token |-> token, exc |-> ""]
LoginRaise(e) == [kind |-> "raise", token |-> PyNone, exc |-> e]

LoginOutcomes(ctx) ==
    IF ~HasKey(ctx, "host")
    THEN {LoginRaise("requests.MissingSchema")}
    ELSE {LoginResponse(PyStr("tok")), LoginResponse(PyNone),
          LoginRaise("ConnectionError"), LoginRaise("requests.ConnectionError")}

\* get_api_key: the value returned, the exception raised ("" when none)
\* and the lines logged
get_api_key(ctx, out) ==
    IF out.kind = "response"
    THEN [value |-> out.token, raised |-> "", logs |-> <<>>]
    ELSE IF out.exc \in BuiltinConnectionErrors
    THEN [value |-> PyNone, raised |-> "", logs |-> <<Error(out.exc)>>]
    ELSE [value |-> PyNone, raised |-> out.exc, logs |-> <<>>]

\* Python's None in place of a client
NoClient ==
    [made |-> FALSE, host |-> PyNone, api_key |-> PyNone, user |-> PyNone,
     params |-> EmptyMap]

\* a mapping after pop("host") and pop("user") (lines 136-137); the first
\* missing key raises and ends the pops
Popped(m) ==
    IF ~HasKey(m, "host") THEN m
    ELSE IF ~HasKey(m, "user") THEN [k \in (DOMAIN m) \ {"host"} |-> m[k]]
    ELSE [k \in (DOMAIN m) \ {"host", "user"} |-> m[k]]

\* params bound to the caller's mapping itself instead of a copy
ContextAfterCreateClientAliased(ctx) == Popped(ctx)

\* the caller's mapping after create_client: params is a copy of it
\* (line 135), so the pops leave it as it was
ContextAfterCreateClient(ctx) == ctx

\* create_client: the client returned (NoClient for None), the lines logged
\* and the caller's context mapping after the call
create_client(ctx, key, ctorRaises) ==
    IF ~HasKey(ctx, "host") \/ ~HasKey(ctx, "user") \/ ctorRaises
    THEN [value |-> NoClient,
          logs |-> <<Error("Failed to create DD client, set logging.DEBUG for stack trace")>>,
          ctx |-> ContextAfterCreateClient(ctx)]
    ELSE [value |-> [made |-> TRUE, host |-> ctx["host"], api_key |-> key,
                     user |-> ctx["user"], params |-> Popped(ctx)],
          logs |-> <<>>,
          ctx |-> ContextAfterCreateClient(ctx)]

\* what client.get_user can do
GetUserOutcomes == {"raise", "success", "failure"}

\* test_client: the value returned, the exception raised, the lines logged,
\* and the remote calls issued
test_client(cl, out) ==
    LET start == <<Info("Testing client configuration is valid")>>
        fail == <<Error("Client failed with exception, use DEBUG for details")>>
    IN  IF ~cl.made
        THEN [value |-> FALSE, raised |-> "RuntimeError", logs |-> start \o fail,
              calls |-> <<>>]
        ELSE IF out = "raise"
        THEN [value |-> FALSE, raised |-> "RuntimeError", logs |-> start \o fail,
              calls |-> <<Call("get_user", 0, "", out, 0)>>]
        ELSE [value |-> (out = "success"), raised |-> "", logs |-> start,
              calls |-> <<Call("get_user", 0, "", out, 0)>>]

-----------------------------------------------------------------------------
(* Stage 3: the bootstrap context (run, lines 251-255).                    *)

\* an item that is a mapping with the given fields, and one that is not a
\* mapping (a bare string in the configuration)
Item(fields) == [ismap |-> TRUE, f |-> fields]
NotMapping == [ismap |-> FALSE, f |-> EmptyMap]

ItemA == Item([k \in {"name"} |-> "A"])
ItemB == Item([k \in {"name", "account"} |-> IF k = "name" THEN "B" ELSE "acct"])
ItemC == Item([k \in {"name"} |-> "C"])

ItemKinds == {ItemA, ItemB, NotMapping}

ItemSeqs == UNION {[1..n -> ItemKinds] : n \in 0..MaxItems}

\* options of the create_product step
StepOptions ==
    {Entry("allow_existing", a) @@ Entry("with_items", w) :
        a \in {{}, {TRUE}, {FALSE}}, w \in {{}, {"products"}, {"extras"}}}

\* the `steps` mapping: only an unknown step, the create_product step, or both
StepMaps ==
    {Entry("other_step", {EmptyMap})}
    \cup {Entry("create_product", {o}) : o \in StepOptions}
    \cup {Entry("other_step", {EmptyMap})
            @@ Entry("create_product", {Entry("with_items", {"products"})})}

\* the structured-file builder: the document's mapping, or the empty
\* context when the file cannot be read
from_yaml_file(markup, readable) == IF readable THEN markup ELSE EmptyMap

Documents ==
    {Entry("steps", s) @@ Entry("products", p) @@ Entry("extras", e) :
        s \in {{}} \cup {{m} : m \in StepMaps},
        p \in {{}} \cup {{q} : q \in ItemSeqs},
        e \in {{}, {<<ItemC>>}}}

BootContexts == {from_yaml_file(d, readable) : d \in Documents, readable \in BOOLEAN}

-----------------------------------------------------------------------------
(* The create_product step (lines 161-174, 193-224).                       *)

\* HTTP status of a created resource (line 217)
HttpCreated == 201

\* what client.list_products can do: raise, report no success, or succeed
\* with the existing products
ListRaise == [kind |-> "raise", names |-> <<>>]
ListFailure == [kind |-> "failure", names |-> <<>>]
ListSuccess(names) == [kind |-> "success", names |-> names]

ListOutcomes ==
    {ListRaise, ListFailure}
    \cup {ListSuccess(names) : names \in {<<>>, <<"A">>, <<"A", "B">>}}

\* a get_products that answers a raising call with an empty collection too
get_productsEmptyOnRaise(out) ==
    [isNone |-> FALSE,
     objects |-> IF out.kind = "success" THEN out.names ELSE <<>>,
     logs |-> IF out.kind = "success" THEN <<>>
              ELSE <<Error("Error retrieving existing products, set DEBUG for details")>>]

\* get_products: the collection returned (isNone for None) and the lines logged
get_products(out) ==
    IF out.kind = "raise"
    THEN [isNone |-> TRUE, objects |-> <<>>,
          logs |-> <<Error("Error retrieving existing products, set DEBUG for details")>>]
    ELSE IF out.kind = "success"
    THEN [isNone |-> FALSE, objects |-> out.names, logs |-> <<>>]
    ELSE [isNone |-> FALSE, objects |-> <<>>,
          logs |-> <<Error("Error occurred in API call, returning empty response")>>]

\* what client.create_product can do: raise, or answer with a status code
CreateOutcomes == {[raises |-> TRUE, code |-> 0],
                   [raises |-> FALSE, code |-> HttpCreated],
                   [raises |-> FALSE, code |-> 400]}

\* create_product without its precondition check
HasProductsKeyUnchecked(ctx) == TRUE

\* a precondition on the collection the step names instead of `products`
HasNamedCollection(ctx) ==
    HasKey(ctx, Get(ctx["steps"]["create_product"], "with_items", "ENOITEMS"))

\* the precondition of create_product (line 196)
HasProductsKey(ctx) == HasKey(ctx, "products")

\* a test for the wrong status code
IsCreatedOnOk(code) == code = 200

\* no test of the status code at all
IsCreatedAlways(code) == TRUE

\* the test that guards the metadata call (line 217)
IsCreated(code) == code = HttpCreated

\* the existing-name branch ignoring allow_existing, one way and the other
OnExistingAlwaysRaise(allow) == "raise"
OnExistingAlwaysSkip(allow) == "skip"

\* an item whose name already exists (lines 210-215): skipped, or an error
OnExisting(allow) == IF allow THEN "skip" ELSE "raise"

\* the metadata call issued ahead of the create call
IssuedOnCreatedMetaFirst(create, meta) == <<meta, create>>

\* the calls of an item whose create call answered 201 (lines 216-220):
\* the create call, then the metadata call
IssuedOnCreated(create, meta) == <<create, meta>>

\* the body of the try block for item k (lines 206-221): the remote calls
\* issued, the lines logged, and whether the block raised
ItemBody(k, i, allow, cur, cOut, metaRaises) ==
    IF ~i.ismap
    THEN [calls |-> <<>>, logs |-> <<>>, raised |-> TRUE]
    ELSE
      LET name == Get(i.f, "name", "ENOPRODNAME")
          account == Get(i.f, "account", "none")
          create == Call("create_product", k, name,
                         IF cOut.raises THEN "raise" ELSE "response", cOut.code)
          meta == Call("add_product_metadata", k, account,
                       IF metaRaises THEN "raise" ELSE "response", 0)
          added == LogLine("INFO", "Added '{}'", k, name)
      IN  IF name \in Range(cur)
          THEN IF OnExisting(allow) = "skip"
               THEN [calls |-> <<>>,
                     logs |-> <<LogLine("INFO", "Product '{}' alread exists, skipping", k, name)>>,
                     raised |-> FALSE]
               ELSE [calls |-> <<>>, logs |-> <<>>, raised |-> TRUE]
          ELSE IF cOut.raises
          THEN [calls |-> <<create>>, logs |-> <<>>, raised |-> TRUE]
          ELSE IF IsCreated(cOut.code)
          THEN IF metaRaises
               THEN [calls |-> IssuedOnCreated(create, meta), logs |-> <<>>, raised |-> TRUE]
               ELSE [calls |-> IssuedOnCreated(create, meta), logs |-> <<added>>, raised |-> FALSE]
          ELSE [calls |-> <<create>>, logs |-> <<added>>, raised |-> FALSE]

\* an item loop whose handler logs and re-raises
ItemExceptReraise(k) ==
    [logs |-> <<LogLine("ERROR", "Error in creating new product, set DEBUG for details", k, "")>>,
     propagates |-> TRUE, next |-> k]

\* the except clause of the item loop (lines 222-224): the lines logged,
\* whether the exception leaves create_product, and the next loop position
ItemExcept(k) ==
    [logs |-> <<LogLine("ERROR", "Error in creating new product, set DEBUG for details", k, "")>>,
     propagates |-> FALSE, next |-> k + 1]

-----------------------------------------------------------------------------
(* The state machine of run (lines 227-267).                               *)

Init ==
    /\ pc = "start"
    /\ context = EmptyMap
    /\ api_key = PyNone
    /\ client = NoClient
    /\ exc = ""
    /\ calls = <<>>
    /\ log = <<>>
    /\ cpState = "idle"
    /\ cpExc = ""
    /\ allow_existing = FALSE
    /\ items = <<>>
    /\ current = <<>>
    /\ idx = 0
    /\ pbCalls = <<>>

cpVars == <<cpState, cpExc, allow_existing, items, current, idx>>

\* lines 231-244: log the start and build the auth context
RunBuildAuth ==
    /\ pc = "start"
    /\ \E ctx \in AuthContexts : context' = ctx
    /\ log' = Append(log, Info("Bootsrapping STARTS"))
    /\ pc' = "get_api_key"
    /\ UNCHANGED <<api_key, client, exc, calls, cpVars, pbCalls>>

\* line 246: api_key = get_api_key(context)
RunGetApiKey ==
    /\ pc = "get_api_key"
    /\ \E out \in LoginOutcomes(context) :
         LET r == get_api_key(context, out)
         IN  /\ calls' = Append(calls, Call("login", 0, "", out.kind, 0))
             /\ log' = log \o r.logs
             /\ IF r.raised = ""
                THEN /\ api_key' = r.value
                     /\ pc' = "create_client"
                     /\ exc' = exc
                ELSE /\ api_key' = api_key
                     /\ pc' = "raised"
                     /\ exc' = r.raised
    /\ UNCHANGED <<context, client, cpVars, pbCalls>>

\* line 247: client = create_client(context, api_key=api_key)
RunCreateClient ==
    /\ pc = "create_client"
    /\ \E ctorRaises \in BOOLEAN :
         LET r == create_client(context, api_key, ctorRaises)
         IN  /\ client' = r.value
             /\ log' = log \o r.logs
             /\ context' = r.ctx
    /\ pc' = "test_client"
    /\ UNCHANGED <<api_key, exc, calls, cpVars, pbCalls>>

\* lines 248-249: test_client(client), its result discarded
RunTestClient ==
    /\ pc = "test_client"
    /\ \E out \in GetUserOutcomes :
         LET r == test_client(client, out)
         IN  /\ calls' = calls \o r.calls
             /\ IF r.raised = ""
                THEN /\ log' = (log \o r.logs) \o <<Info("Client tested successfully")>>
                     /\ pc' = "build_bootstrap"
                     /\ exc' = exc
                ELSE /\ log' = log \o r.logs
                     /\ pc' = "raised"
                     /\ exc' = r.raised
    /\ UNCHANGED <<context, api_key, client, cpVars, pbCalls>>

\* lines 251-255: rebind context to the bootstrap context
RunBuildBootstrap ==
    /\ pc = "build_bootstrap"
    /\ \E ctx \in BootContexts : context' = ctx
    /\ log' = Append(log, Info("Generating bootstrap config"))
    /\ pc' = "dispatch"
    /\ UNCHANGED <<api_key, client, exc, calls, cpVars, pbCalls>>

\* a dispatch block whose handler logs and re-raises
DispatchExceptReraise ==
    [logs |-> <<Error("Exception raised in bootstrapping steps, set DEBUG for details")>>,
     propagates |-> TRUE]

\* the except clause of the dispatch block (lines 262-264): the lines
\* logged and whether the exception leaves run
DispatchExcept ==
    [logs |-> <<Error("Exception raised in bootstrapping steps, set DEBUG for details")>>,
     propagates |-> FALSE]

Ended == Info("Bootstrapping ENDED")

\* run after an exception e reached the dispatch block's except clause
\* (lines 262-266)
AfterDispatchException(e) ==
    /\ log' = IF DispatchExcept.propagates
              THEN log \o DispatchExcept.logs
              ELSE (log \o DispatchExcept.logs) \o <<Ended>>
    /\ pc' = IF DispatchExcept.propagates THEN "raised" ELSE "done"
    /\ exc' = IF DispatchExcept.propagates THEN e ELSE exc

\* a dispatcher that runs the handler for any declared step
StepDeclaredAny(steps) == DOMAIN steps # {}

\* the test that dispatches the create_product step (line 259)
StepDeclared(steps) == HasKey(steps, "create_product")

\* lines 257-260: look the steps up and enter the create_product step, or
\* (lines 262-266) finish when the lookup raises or the step is not declared
RunDispatch ==
    /\ pc = "dispatch"
    /\ IF ~HasKey(context, "steps")
       THEN AfterDispatchException("AttributeError")
       ELSE IF StepDeclared(context["steps"])
       THEN /\ log' = Append(log, Info("Running step 'create_product'"))
            /\ pc' = "create_product"
            /\ exc' = exc
       ELSE /\ log' = Append(log, Ended)
            /\ pc' = "done"
            /\ exc' = exc
    /\ UNCHANGED <<context, api_key, client, calls, cpVars, pbCalls>>

\* a lookup that takes a missing collection for an empty one
ResolveItemsOrEmpty(ctx, name) ==
    [isNone |-> FALSE, value |-> IF HasKey(ctx, name) THEN ctx[name] ELSE <<>>]

\* items = context.get(with_items) (line 201): the collection, or None
\* when the context has no such key
ResolveItems(ctx, name) ==
    IF HasKey(ctx, name)
    THEN [isNone |-> FALSE, value |-> ctx[name]]
    ELSE [isNone |-> TRUE, value |-> <<>>]

\* create_product up to the item loop (lines 196-204): the precondition,
\* the step options, the item collection and the existing names
CpEntry ==
    /\ pc = "create_product"
    /\ cpState = "idle"
    /\ IF ~HasProductsKey(context)
       THEN /\ cpState' = "raised"
            /\ cpExc' = "KeyError"
            /\ UNCHANGED <<calls, log, allow_existing, items, current, idx>>
       ELSE
         LET opts == context["steps"]["create_product"]
             allow == Get(opts, "allow_existing", FALSE)
             with_items == Get(opts, "with_items", "ENOITEMS")
         IN  \E out \in ListOutcomes :
               LET r == get_products(out)
               IN  /\ calls' = Append(calls, Call("list_products", 0, "", out.kind, 0))
                   /\ log' = log \o r.logs
                   /\ allow_existing' = allow
                   /\ IF r.isNone
                      THEN \* line 202 iterates None
                           /\ cpState' = "raised"
                           /\ cpExc' = "TypeError"
                           /\ UNCHANGED <<items, current, idx>>
                      ELSE IF ResolveItems(context, with_items).isNone
                      THEN \* line 204 iterates None
                           /\ cpState' = "raised"
                           /\ cpExc' = "TypeError"
                           /\ current' = r.objects
                           /\ UNCHANGED <<items, idx>>
                      ELSE /\ cpState' = "loop"
                           /\ cpExc' = cpExc
                           /\ items' = ResolveItems(context, with_items).value
                           /\ current' = r.objects
                           /\ idx' = 1
    /\ UNCHANGED <<pc, context, api_key, client, exc, pbCalls>>

\* a loop that adds the names it creates to the existing names
CurrentAfterItemTracking(cur, issued) ==
    LET created == SelectSeq(issued, LAMBDA c : c.op = "create_product")
    IN  cur \o [n \in 1..Len(created) |-> created[n].arg]

\* the existing names after an iteration that issued the given calls: the
\* loop never assigns `current` (lines 204-224)
CurrentAfterItem(cur, issued) == cur

\* one iteration of the item loop (lines 204-224)
CpItem ==
    /\ pc = "create_product"
    /\ cpState = "loop"
    /\ idx \in 1..Len(items)
    /\ \E cOut \in CreateOutcomes, metaRaises \in BOOLEAN :
         LET b == ItemBody(idx, items[idx], allow_existing, current, cOut, metaRaises)
             h == ItemExcept(idx)
         IN  /\ calls' = calls \o b.calls
             /\ current' = CurrentAfterItem(current, b.calls)
             /\ IF ~b.raised
                THEN /\ log' = log \o b.logs
                     /\ idx' = idx + 1
                     /\ UNCHANGED <<cpState, cpExc>>
                ELSE /\ log' = (log \o b.logs) \o h.logs
                     /\ IF h.propagates
                        THEN /\ cpState' = "raised"
                             /\ cpExc' = "Exception"
                             /\ idx' = idx
                        ELSE /\ idx' = h.next
                             /\ UNCHANGED <<cpState, cpExc>>
    /\ UNCHANGED <<pc, context, api_key, client, exc, allow_existing, items,
                   pbCalls>>

\* the item loop is exhausted: create_product returns and run logs the
\* completion (line 266)
RunStepReturned ==
    /\ pc = "create_product"
    /\ cpState = "loop"
    /\ idx > Len(items)
    /\ cpState' = "returned"
    /\ log' = Append(log, Ended)
    /\ pc' = "done"
    /\ UNCHANGED <<context, api_key, client, exc, calls, cpExc, allow_existing,
                   items, current, idx, pbCalls>>

\* create_product raised: the exception reaches the dispatch block's except
\* clause (lines 262-266)
RunStepRaised ==
    /\ pc = "create_product"
    /\ cpState = "raised"
    /\ AfterDispatchException(cpExc)
    /\ UNCHANGED <<context, api_key, client, calls, cpVars, pbCalls>>

Next ==
    \/ RunBuildAuth
    \/ RunGetApiKey
    \/ RunCreateClient
    \/ RunTestClient
    \/ RunBuildBootstrap
    \/ RunDispatch
    \/ CpEntry
    \/ CpItem
    \/ RunStepReturned
    \/ RunStepRaised

Spec == Init /\ [][Next]_vars

-----------------------------------------------------------------------------
(* parse_bool applied to a bounded number of values.                       *)

ParseBool ==
    /\ Len(pbCalls) < MaxCalls
    /\ \E v \in PyValues : pbCalls' = Append(pbCalls, <<v, parse_bool(v)>>)
    /\ UNCHANGED runVars

NextBool == ParseBool

SpecBool == Init /\ [][NextBool]_vars

-----------------------------------------------------------------------------
(* Vocabulary of the properties.                                           *)

ProvisioningOps == {"list_products", "create_product", "add_product_metadata"}

CallsOf(op) == {n \in DOMAIN calls : calls[n].op = op}

\* the calls of an operation issued by loop position k
ItemCalls(op, k) == {n \in DOMAIN calls : calls[n].op = op /\ calls[n].idx = k}

ErrorLoggedFor(k) == \E n \in DOMAIN log : log[n].level = "ERROR" /\ log[n].idx = k

ItemName(k) == Get(items[k].f, "name", "ENOPRODNAME")

\* item k names a product of the existing-names list
NameExists(k) == items[k].ismap /\ ItemName(k) \in Range(current)

\* the loop has left item k behind, or stopped at it with an exception
Attempted(k) == k < idx \/ (cpState = "raised" /\ k = idx)

\* the per-item block of item k failed: the item is no mapping, its name
\* exists while allow_existing is false, or one of its remote calls raised
ItemFailed(k) ==
    /\ Attempted(k)
    /\ \/ ~items[k].ismap
       \/ NameExists(k) /\ ~allow_existing
       \/ \E n \in DOMAIN calls : calls[n].idx = k /\ calls[n].res = "raise"

\* item k is a mapping whose name is not among the existing names
IsNew(k) == items[k].ismap /\ ~NameExists(k)

EndedLogged == Ended \in Range(log)

-----------------------------------------------------------------------------
(* C1: per-item isolation in create_product. Whenever the per-item block   *)
(* of an item k has failed (the item is not a mapping, the create call or  *)
(* the metadata call raised), the failure is logged as an error for k,     *)
(* create_product has not raised, the loop has moved past k, and once      *)
(* create_product has returned every new item after k has had its create   *)
(* call attempted, exactly once.                                           *)
C1_PerItemIsolation ==
    \A k \in 1..Len(items) :
        ItemFailed(k) =>
            /\ ErrorLoggedFor(k)
            /\ cpState # "raised"
            /\ idx > k
            /\ cpState = "returned" =>
                 \A j \in (k + 1)..Len(items) :
                     IsNew(j) => Cardinality(ItemCalls("create_product", j)) = 1

\* creating the first item raised, and the second item was still created
C1_Witness ==
    /\ cpState = "returned"
    /\ Len(items) = 2
    /\ \E n \in ItemCalls("create_product", 1) : calls[n].res = "raise"
    /\ \E n \in ItemCalls("create_product", 2) :
         calls[n].res = "response" /\ calls[n].code = HttpCreated

(* C2: idempotent create with allow_existing true. An item whose name is   *)
(* in the existing-names list gets no create call and no metadata call,    *)
(* no error is logged for it and create_product does not raise; when every *)
(* item of the collection exists, no create call is issued at all.         *)
C2_IdempotentCreate ==
    (cpState \in {"loop", "returned", "raised"} /\ allow_existing) =>
        /\ \A k \in 1..Len(items) :
              NameExists(k) =>
                  /\ ItemCalls("create_product", k) = {}
                  /\ ItemCalls("add_product_metadata", k) = {}
                  /\ ~ErrorLoggedFor(k)
                  /\ ~(cpState = "raised" /\ idx = k)
        /\ (\A k \in 1..Len(items) : NameExists(k)) => CallsOf("create_product") = {}

\* a batch whose names all exist already has run to its end
C2_Witness ==
    /\ cpState = "returned"
    /\ allow_existing
    /\ Len(items) = 2
    /\ \A k \in 1..Len(items) : NameExists(k)
    /\ CallsOf("create_product") = {}
    /\ \A k \in 1..Len(items) :
         \E n \in DOMAIN log : log[n].idx = k /\ log[n].level = "INFO"

(* C3: with allow_existing false or absent, an item whose name exists gets *)
(* no create call, an error is logged for it once it has been processed,   *)
(* create_product does not raise, and once create_product has returned     *)
(* every other item that is new has had its create call.                   *)
C3_ExistingRejected ==
    (cpState \in {"loop", "returned", "raised"} /\ ~allow_existing) =>
        \A k \in 1..Len(items) :
            NameExists(k) =>
                /\ ItemCalls("create_product", k) = {}
                /\ Attempted(k) => ErrorLoggedFor(k)
                /\ cpState # "raised"
                /\ cpState = "returned" =>
                     \A j \in (1..Len(items)) \ {k} :
                         IsNew(j) => Cardinality(ItemCalls("create_product", j)) = 1

\* allow_existing is absent, the first item exists and was rejected, the
\* second one is new and was created
C3_Witness ==
    /\ cpState = "returned"
    /\ ~HasKey(context["steps"]["create_product"], "allow_existing")
    /\ Len(items) = 2
    /\ NameExists(1)
    /\ ErrorLoggedFor(1)
    /\ IsNew(2)
    /\ ItemCalls("create_product", 2) # {}

(* C4: when the context given to create_product has no `products` key,     *)
(* create_product raises KeyError itself, and no list-products,            *)
(* create-product or add-product-metadata call has been issued.            *)
C4_MissingProductsKey ==
    (cpState # "idle" /\ ~HasKey(context, "products")) =>
        /\ cpState = "raised"
        /\ cpExc = "KeyError"
        /\ \A n \in DOMAIN calls : calls[n].op \notin ProvisioningOps

\* create_product was entered with a context that lacks `products`
C4_Witness ==
    /\ cpState = "raised"
    /\ cpExc = "KeyError"
    /\ HasKey(context, "steps")
    /\ ~HasKey(context, "products")

-----------------------------------------------------------------------------
(* Vocabulary of the properties about run.                                 *)

\* run is past stage 3 (the bootstrap context is built)
PastBootstrap == pc \in {"dispatch", "create_product", "done"}

\* the client test has been made and has failed: there was no client, the
\* get-user call raised, or it reported no success
ClientTestFailed ==
    /\ pc \notin {"start", "get_api_key", "create_client", "test_client"}
    /\ Info("Testing client configuration is valid") \in Range(log)
    /\ \/ ~client.made
       \/ \E n \in CallsOf("get_user") : calls[n].res \in {"raise", "failure"}

NoProvisioningCall == \A n \in DOMAIN calls : calls[n].op \notin ProvisioningOps

(* C5: the client test gates provisioning. When the client test has        *)
(* failed, run has raised and no list-products, create-product or          *)
(* add-product-metadata call is issued.                                    *)
C5_ClientTestGates ==
    ClientTestFailed => (pc = "raised" /\ NoProvisioningCall)

(* C6: absence of an API token is fatal. When get_api_key has returned     *)
(* without a token, the run issues no list-products and no create-product  *)
(* call.                                                                   *)
C6_NoTokenIsFatal ==
    (CallsOf("login") # {} /\ pc \notin {"get_api_key", "raised"} /\ api_key = PyNone) =>
        (CallsOf("list_products") = {} /\ CallsOf("create_product") = {})

(* C7: missing required bootstrap keys are fatal. When run has logged       *)
(* "Bootstrapping ENDED", the bootstrap context has its `steps` key, and   *)
(* its `products` key when it declares the create_product step.            *)
C7_MissingKeysAbort ==
    EndedLogged =>
        /\ HasKey(context, "steps")
        /\ HasKey(context["steps"], "create_product") => HasKey(context, "products")

(* C8: once stages 1-3 have passed, run never raises: a failure of the     *)
(* dispatch block (the steps lookup raised, or create_product raised) is   *)
(* logged as an error, run goes on until it has logged                     *)
(* "Bootstrapping ENDED" as its last line, and returns with no exception.  *)
C8_DispatchSwallows ==
    /\ Info("Generating bootstrap config") \in Range(log) =>
         /\ PastBootstrap
         /\ exc = ""
         /\ pc # "done" => ENABLED Next
    /\ pc = "done" =>
         /\ log[Len(log)] = Ended
         /\ (~HasKey(context, "steps") \/ cpState = "raised") =>
              Error("Exception raised in bootstrapping steps, set DEBUG for details")
                  \in Range(log)

\* create_product raised inside the dispatch block and run still ended
C8_Witness ==
    /\ pc = "done"
    /\ cpState = "raised"
    /\ cpExc = "TypeError"
    /\ EndedLogged

\* the end-to-end scenario: readable environment file, token fetched,
\* client test passed, one declared product, no existing product
EndToEndScenario ==
    /\ client.made
    /\ client.host = PyStr("h")
    /\ client.user = PyStr("u")
    /\ api_key = PyStr("tok")
    /\ \E n \in CallsOf("get_user") : calls[n].res = "success"
    /\ context = Entry("steps", {Entry("create_product", {Entry("with_items", {"products"})})})
                   @@ Entry("products", {<<ItemA>>})
    /\ \A n \in CallsOf("list_products") : calls[n].res = "success"
    /\ current = <<>>

-----------------------------------------------------------------------------
\* the literals BoolCoercer names
TrueLiterals == {PyTrue, PyStr("1"), PyStr("true"), PyStr("True")}
FalseLiterals == {PyFalse, PyStr("0"), PyStr("false"), PyStr("False")}

(* C10: parse_bool maps True, "1", "true", "True" to True; False, "0",     *)
(* "false", "False" to False; and returns every other value unchanged in   *)
(* value and type.                                                         *)
C10_ParseBool ==
    \A n \in DOMAIN pbCalls :
        LET v == pbCalls[n][1]
            r == pbCalls[n][2]
        IN  /\ v \in TrueLiterals => r = PyTrue
            /\ v \in FalseLiterals => r = PyFalse
            /\ v \notin TrueLiterals \cup FalseLiterals => r = v

-----------------------------------------------------------------------------
\* the lines logged by run from the dispatch block on
DispatchLog ==
    {n \in DOMAIN log :
        \E m \in DOMAIN log : m < n /\ log[m] = Info("Generating bootstrap config")}

(* C11: unknown step names are ignored by the dispatcher. The handler of   *)
(* create_product is entered only when `steps` declares create_product,    *)
(* and at most once per run. When `steps` holds only other names, the run  *)
(* issues no provisioning call, logs no error in the dispatch block, and   *)
(* ends by logging "Bootstrapping ENDED".                                  *)
C11_UnknownStepsIgnored ==
    /\ (pc = "create_product" \/ cpState # "idle") =>
          HasKey(context["steps"], "create_product")
    /\ Cardinality({n \in DOMAIN log : log[n] = Info("Running step 'create_product'")}) <= 1
    /\ Cardinality(CallsOf("list_products")) <= 1
    /\ (PastBootstrap /\ pc # "dispatch" /\ HasKey(context, "steps")
          /\ ~HasKey(context["steps"], "create_product")) =>
          /\ pc = "done"
          /\ cpState = "idle"
          /\ NoProvisioningCall
          /\ \A n \in DispatchLog : log[n].level # "ERROR"
          /\ log[Len(log)] = Ended

\* a run whose only declared step is unknown has ended
C11_Witness ==
    /\ pc = "done"
    /\ HasKey(context, "steps")
    /\ DOMAIN context["steps"] = {"other_step"}
    /\ EndedLogged

-----------------------------------------------------------------------------
\* the list-products call precedes every create-product call
ListBeforeCreates ==
    \A c \in CallsOf("create_product") : \E l \in CallsOf("list_products") : l < c

\* every new item the loop has left behind has had exactly one create call
\* (two items that carry the same new name have one each)
EachNewItemCreated ==
    \A k \in 1..Len(items) :
        (k < idx /\ IsNew(k)) => Cardinality(ItemCalls("create_product", k)) = 1

-----------------------------------------------------------------------------
\* the create call of item k answered 201
CreatedOk(k) ==
    \E n \in ItemCalls("create_product", k) :
        calls[n].res = "response" /\ calls[n].code = HttpCreated

(* C13: create and metadata calls per item. An item whose name is not in   *)
(* the existing names gets exactly one create-product call once the loop   *)
(* has passed it, and no item ever gets a second one. A metadata call for  *)
(* an item comes after that item's create call answered 201, at most once, *)
(* and carries the item's account value; when the create call raised or    *)
(* answered another code the item gets no metadata call.                   *)
C13_CreateAndMetadataPerItem ==
    /\ \A n \in CallsOf("create_product") \cup CallsOf("add_product_metadata") :
          calls[n].idx \in 1..Len(items)
    /\ \A k \in 1..Len(items) :
          /\ Cardinality(ItemCalls("create_product", k)) <= 1
          /\ (k < idx /\ IsNew(k)) => Cardinality(ItemCalls("create_product", k)) = 1
          /\ Cardinality(ItemCalls("add_product_metadata", k)) <= 1
          /\ \A n \in ItemCalls("add_product_metadata", k) :
                /\ \E m \in ItemCalls("create_product", k) :
                      m < n /\ calls[m].res = "response" /\ calls[m].code = HttpCreated
                /\ calls[n].arg = Get(items[k].f, "account", "none")
          /\ ~CreatedOk(k) => ItemCalls("add_product_metadata", k) = {}

\* one item was created and tagged with its account, another was rejected
\* by the service and got no metadata call
C13_Witness ==
    /\ cpState = "returned"
    /\ Len(items) = 2
    /\ CreatedOk(1)
    /\ \E n \in ItemCalls("add_product_metadata", 1) : calls[n].arg = "acct"
    /\ \E n \in ItemCalls("create_product", 2) :
         calls[n].res = "response" /\ calls[n].code # HttpCreated
    /\ ItemCalls("add_product_metadata", 2) = {}

-----------------------------------------------------------------------------
\* the remote calls issued by the item loop
LoopCalls == {n \in DOMAIN calls : calls[n].idx > 0}

(* C14: sequential order. The item loop issues its remote calls one item   *)
(* at a time in the order of the collection: a call of an earlier item     *)
(* never follows a call of a later item, the create call of an item        *)
(* precedes its metadata call, every loop call follows the list-products   *)
(* call, and the create-product calls, read in the order issued, name      *)
(* items of the collection at strictly increasing positions.               *)
C14_SequentialOrder ==
    /\ \A m, n \in LoopCalls : m < n => calls[m].idx <= calls[n].idx
    /\ \A m, n \in LoopCalls :
          (calls[m].idx = calls[n].idx /\ calls[m].op = "create_product"
              /\ calls[n].op = "add_product_metadata") => m < n
    /\ \A n \in LoopCalls : \A m \in DOMAIN calls : calls[m].idx = 0 => m < n
    /\ \A m, n \in CallsOf("create_product") : m < n => calls[m].idx < calls[n].idx
    /\ \A n \in CallsOf("create_product") :
          /\ calls[n].idx \in 1..Len(items)
          /\ calls[n].arg = ItemName(calls[n].idx)

\* two items were created and tagged, one after the other
C14_Witness ==
    /\ cpState = "returned"
    /\ Len(items) = 2
    /\ Len(calls) >= 4
    /\ LET n == Len(calls)
       IN  /\ calls[n - 3].op = "create_product" /\ calls[n - 3].idx = 1
           /\ calls[n - 2].op = "add_product_metadata" /\ calls[n - 2].idx = 1
           /\ calls[n - 1].op = "create_product" /\ calls[n - 1].idx = 2
           /\ calls[n].op = "add_product_metadata" /\ calls[n].idx = 2

-----------------------------------------------------------------------------
\* the options of the create_product step of the bootstrap context
StepOpts == context["steps"]["create_product"]

\* the step names no collection: it has no with_items, or with_items is
\* not a key of the context
NoCollection ==
    \/ ~HasKey(StepOpts, "with_items")
    \/ ~HasKey(context, StepOpts["with_items"])

(* C15: the with_items sentinel. When the create_product step gives no     *)
(* with_items, or with_items names no key of the context, create_product   *)
(* raises (it does not iterate an empty collection and return) and no      *)
(* create-product call is issued.                                          *)
C15_NoItemsIsAnError ==
    (cpState # "idle" /\ NoCollection) =>
        /\ cpState = "raised"
        /\ cpExc \in {"KeyError", "TypeError"}
        /\ CallsOf("create_product") = {}

\* `products` is present, with_items is absent, the existing products were
\* fetched, and create_product raised at the loop
C15_Witness ==
    /\ cpState = "raised"
    /\ cpExc = "TypeError"
    /\ HasKey(context, "products")
    /\ ~HasKey(StepOpts, "with_items")
    /\ \E n \in CallsOf("list_products") : calls[n].res = "success"

-----------------------------------------------------------------------------
\* run is inside get_api_key, create_client or create_product
InContextReader == pc \in {"get_api_key", "create_client", "create_product"}

(* C16: contexts are not mutated after they are built. No step of          *)
(* get_api_key, create_client or create_product changes the context        *)
(* mapping of run; when create_client has returned, with a client or with  *)
(* nothing after a swallowed failure, the context still holds `host` and   *)
(* `user`, which were removed only from the client's copy.                 *)
C16_ContextsNotMutated ==
    /\ [][InContextReader => context' = context]_vars
    /\ [](pc = "test_client" =>
            /\ HasKey(context, "host")
            /\ HasKey(context, "user")
            /\ client.made =>
                 /\ DOMAIN client.params = (DOMAIN context) \ {"host", "user"}
                 /\ client.host = context["host"]
                 /\ client.user = context["user"])

\* create_client swallowed a failure and the context is as it was built
C16_Witness ==
    /\ pc = "test_client"
    /\ ~client.made
    /\ context = from_dotenv_file(EnvGood, TRUE)

-----------------------------------------------------------------------------
\* the exceptions that report a connection failure of the login request:
\* the builtin ones, and the one the requests library raises
ConnectionFailures == {"ConnectionError", "TimeoutError", "requests.ConnectionError"}

(* C17: get_api_key does not propagate connection failures. No connection  *)
(* failure of the login request leaves get_api_key as an exception; after  *)
(* a failed login that get_api_key survived the key is None and the        *)
(* failure is logged; one call of get_api_key issues one login request.    *)
C17_ConnectionFailuresCaught ==
    /\ exc \notin ConnectionFailures
    /\ Cardinality(CallsOf("login")) <= 1
    /\ (pc \notin {"start", "get_api_key", "raised"}
          /\ \E n \in CallsOf("login") : calls[n].res = "raise") =>
          /\ api_key = PyNone
          /\ \E n \in DOMAIN log : log[n].level = "ERROR"

-----------------------------------------------------------------------------
\* how the list-products call of the invocation ended
ListEnded(res) == \E n \in CallsOf("list_products") : calls[n].res = res

\* C18 as stated: after a list-products call that reported no success,
\* every item of the collection the loop has passed got a create call
C18_EveryItemCreated ==
    (ListEnded("failure") /\ cpState \in {"loop", "returned"}) =>
        \A k \in 1..Len(items) :
            k < idx => Cardinality(ItemCalls("create_product", k)) = 1

(* C18: a failed fetch of the existing products is handled in two ways.    *)
(* When the list-products call reports no success, an error is logged, the *)
(* existing names are empty, and every item that is a mapping gets its     *)
(* create-product call whatever allow_existing says (an item that is not a *)
(* mapping gets none). When the list-products call raises, create_product  *)
(* raises before any create-product call.                                  *)
C18_FailedFetch ==
    /\ ListEnded("failure") =>
          /\ Error("Error occurred in API call, returning empty response") \in Range(log)
          /\ cpState \in {"loop", "returned"} =>
               /\ current = <<>>
               /\ \A k \in 1..Len(items) :
                     k < idx =>
                        Cardinality(ItemCalls("create_product", k)) =
                            IF items[k].ismap THEN 1 ELSE 0
    /\ ListEnded("raise") =>
          /\ cpState = "raised"
          /\ cpExc = "TypeError"
          /\ CallsOf("create_product") = {}

\* the fetch reported no success, allow_existing is false, and both items
\* of the batch were sent to the service
C18_Witness ==
    /\ ListEnded("failure")
    /\ cpState = "returned"
    /\ ~allow_existing
    /\ Len(items) = 2
    /\ \A k \in 1..2 : ItemCalls("create_product", k) # {}

-----------------------------------------------------------------------------
(* C19: the precondition of create_product is on the literal key           *)
(* `products`. When with_items names a collection the context holds and    *)
(* `products` is absent, create_product raises KeyError and processes no   *)
(* item. When the item loop runs, `products` is present and the items      *)
(* iterated are those of the collection with_items names.                  *)
C19_LiteralProductsKey ==
    /\ (cpState # "idle" /\ ~HasKey(context, "products") /\ ~NoCollection) =>
          /\ cpState = "raised"
          /\ cpExc = "KeyError"
          /\ idx = 0
          /\ items = <<>>
          /\ LoopCalls = {}
    /\ cpState \in {"loop", "returned"} =>
          /\ HasKey(context, "products")
          /\ ~NoCollection
          /\ items = context[StepOpts["with_items"]]

\* the step names the collection `extras`, which the context holds, and
\* create_product raised for the missing `products`
C19_Witness ==
    /\ cpState = "raised"
    /\ cpExc = "KeyError"
    /\ ~HasKey(context, "products")
    /\ HasKey(StepOpts, "with_items")
    /\ StepOpts["with_items"] = "extras"
    /\ HasKey(context, "extras")

====
